---- MODULE Spec2Model ----
(***************************************************************************)
(* A model of cita-logger (src/src/lib.rs): the RUST_LOG directive parser, *)
(* the one-shot initializer guarded by INIT_LOG, the SIGUSR1 forwarding    *)
(* thread and the log rotation waiter.                                     *)
(*                                                                         *)
(* Text is a sequence of one-character strings, so that split, trim and    *)
(* the case-insensitive level lookup are computed character by character.  *)
(***************************************************************************)
EXTENDS Integers, Sequences, FiniteSets, TLC

VARIABLES
    env,          \* parse_env's argument (SpecParse)
    directives,   \* parse_env's return value (SpecParse)
    parsePc,      \* "start" before the call of parse_env, "done" after it
    RUST_LOG,     \* the environment variable: None, or Some(text)
    INIT_LOG,     \* the state of each std::sync::Once
    callPc,       \* where each calling thread is
    entry,        \* the entry point and argument of each thread's call
    loc,          \* the locals of the closure each thread runs
    bodyRuns,     \* how often each entry point's closure was entered
    initBuilds,   \* configurations built by the closures
    initInstalls, \* successful log4rs::init_config calls
    logger,       \* the live configuration: None, or Some(config)
    handle,       \* the path now naming the file the live appender holds open
    fs,           \* the files under logs/: path -> records
    now,          \* the local clock, in seconds
    registered,   \* Signals::new(&[SIGUSR1]) has succeeded
    pending,      \* SIGUSR1 deliveries signal_hook has not handed out yet
    fwdPc,        \* the forwarding thread of notify
    queue,        \* the bounded(100) channel
    waiterPc,     \* the rotation thread
    w,            \* what the rotation thread captured, and its locals
    sigBudget,    \* SIGUSR1 deliveries the environment still makes (< 0: any)
    recBudget     \* records the application still logs

parseVars == <<env, directives, parsePc>>

initVars == <<RUST_LOG, INIT_LOG, callPc, entry, loc, bodyRuns, initBuilds,
              initInstalls>>

rotVars == <<logger, handle, fs, now, registered, pending, fwdPc, queue,
             waiterPc, w, sigBudget, recBudget>>

vars == <<env, directives, parsePc, RUST_LOG, INIT_LOG, callPc, entry, loc,
          bodyRuns, initBuilds, initInstalls, logger, handle, fs, now,
          registered, pending, fwdPc, queue, waiterPc, w, sigBudget, recBudget>>

(***************************************************************************)
(* Bounds of the model                                                     *)
(***************************************************************************)
\* the number of fields (pieces between ',' and '=') of a parsed text
MaxFields == 4

(***************************************************************************)
(* Text helpers: str::split, str::trim, eq_ignore_ascii_case               *)
(***************************************************************************)
LowerLetters ==
    <<"a","b","c","d","e","f","g","h","i","j","k","l","m",
      "n","o","p","q","r","s","t","u","v","w","x","y","z">>

UpperLetters ==
    <<"A","B","C","D","E","F","G","H","I","J","K","L","M",
      "N","O","P","Q","R","S","T","U","V","W","X","Y","Z">>

\* u8::to_ascii_uppercase, as eq_ignore_ascii_case applies it to each byte
to_ascii_uppercase(c) ==
    IF \E i \in 1..26 : LowerLetters[i] = c
    THEN UpperLetters[CHOOSE i \in 1..26 : LowerLetters[i] = c]
    ELSE c

eq_ignore_ascii_case(a, b) ==
    /\ Len(a) = Len(b)
    /\ \A i \in 1..Len(a) : to_ascii_uppercase(a[i]) = to_ascii_uppercase(b[i])

\* char::is_whitespace, on the characters the model's texts are made of
is_whitespace(c) == c = " "

RECURSIVE trim_start(_)
trim_start(s) ==
    IF s # <<>> /\ is_whitespace(Head(s)) THEN trim_start(Tail(s)) ELSE s

RECURSIVE trim_end(_)
trim_end(s) ==
    IF s # <<>> /\ is_whitespace(s[Len(s)])
    THEN trim_end(SubSeq(s, 1, Len(s) - 1))
    ELSE s

\* str::trim
trim(s) == trim_end(trim_start(s))

\* str::split(sep) collected: the pieces between the separators, the empty
\* ones included; the empty text splits into one empty piece
RECURSIVE splitFrom(_, _, _)
splitFrom(s, sep, cur) ==
    IF s = <<>> THEN <<cur>>
    ELSE IF Head(s) = sep THEN <<cur>> \o splitFrom(Tail(s), sep, <<>>)
    ELSE splitFrom(Tail(s), sep, Append(cur, Head(s)))

split(s, sep) == splitFrom(s, sep, <<>>)

(***************************************************************************)
(* log::LevelFilter and its FromStr                                        *)
(***************************************************************************)
LevelFilter == {"Off", "Error", "Warn", "Info", "Debug", "Trace"}

\* log's LOG_LEVEL_NAMES, with the LevelFilter of each position
LOG_LEVEL_NAMES ==
    << <<"O","F","F">>, <<"E","R","R","O","R">>, <<"W","A","R","N">>,
       <<"I","N","F","O">>, <<"D","E","B","U","G">>, <<"T","R","A","C","E">> >>

LevelOfIndex == <<"Off", "Error", "Warn", "Info", "Debug", "Trace">>

\* an Option is a sequence: <<>> is None (or Err), <<v>> is Some(v) (or Ok(v))
None == <<>>
Some(v) == <<v>>

\* LevelFilter::from_str comparing the bytes as they are
LevelFilter_from_str_exact(s) ==
    IF \E i \in 1..6 : LOG_LEVEL_NAMES[i] = s
    THEN Some(LevelOfIndex[CHOOSE i \in 1..6 : LOG_LEVEL_NAMES[i] = s])
    ELSE None

\* LevelFilter::from_str: Ok(level) or Err
LevelFilter_from_str(s) ==
    IF \E i \in 1..6 : eq_ignore_ascii_case(LOG_LEVEL_NAMES[i], s)
    THEN Some(LevelOfIndex[CHOOSE i \in 1..6 :
                               eq_ignore_ascii_case(LOG_LEVEL_NAMES[i], s)])
    ELSE None

(***************************************************************************)
(* parse_env                                                               *)
(***************************************************************************)
Directive(name, level) == [name |-> name, level |-> level]

\* the three parts.next() of line 129: the second one trimmed
Parts(s) ==
    LET fields == split(s, "=")
    IN  [part0 |-> fields[1],
         part1 |-> IF Len(fields) >= 2 THEN Some(trim(fields[2])) ELSE None,
         part2 |-> IF Len(fields) >= 3 THEN Some(fields[3]) ELSE None]

\* the match without its last arm: fields after the second are ignored
MatchPartsIgnoreExtra(p) ==
    IF p.part1 = None
    THEN IF LevelFilter_from_str(p.part0) # None
         THEN None
         ELSE Some(<<"Info", p.part0>>)
    ELSE IF p.part1 = Some(<<>>)
    THEN Some(<<"Info", p.part0>>)
    ELSE IF LevelFilter_from_str(p.part1[1]) # None
         THEN Some(<<LevelFilter_from_str(p.part1[1])[1], p.part0>>)
         ELSE None

\* the match with a level that does not parse taken as Info
MatchPartsLenient(p) ==
    IF p.part1 = None /\ p.part2 = None
    THEN IF LevelFilter_from_str(p.part0) # None
         THEN None
         ELSE Some(<<"Info", p.part0>>)
    ELSE IF p.part1 = Some(<<>>) /\ p.part2 = None
    THEN Some(<<"Info", p.part0>>)
    ELSE IF p.part1 # None /\ p.part2 = None
    THEN IF LevelFilter_from_str(p.part1[1]) # None
         THEN Some(<<LevelFilter_from_str(p.part1[1])[1], p.part0>>)
         ELSE Some(<<"Info", p.part0>>)
    ELSE None

\* the match without the arm of line 140: an empty second field is handed
\* to LevelFilter::from_str like any other
MatchPartsNoDefault(p) ==
    IF p.part1 = None /\ p.part2 = None
    THEN IF LevelFilter_from_str(p.part0) # None
         THEN None
         ELSE Some(<<"Info", p.part0>>)
    ELSE IF p.part1 # None /\ p.part2 = None
    THEN IF LevelFilter_from_str(p.part1[1]) # None
         THEN Some(<<LevelFilter_from_str(p.part1[1])[1], p.part0>>)
         ELSE None
    ELSE None

\* the match with a single field always taken as a module name
MatchPartsBareAsModule(p) ==
    IF p.part1 = None /\ p.part2 = None
    THEN Some(<<"Info", p.part0>>)
    ELSE IF p.part1 = Some(<<>>) /\ p.part2 = None
    THEN Some(<<"Info", p.part0>>)
    ELSE IF p.part1 # None /\ p.part2 = None
    THEN IF LevelFilter_from_str(p.part1[1]) # None
         THEN Some(<<LevelFilter_from_str(p.part1[1])[1], p.part0>>)
         ELSE None
    ELSE None

\* the match of lines 129-160: Some(<<log_level, name>>), or None where the
\* arm ends in `continue`
MatchParts(p) ==
    IF p.part1 = None /\ p.part2 = None
    THEN IF LevelFilter_from_str(p.part0) # None
         THEN None
         ELSE Some(<<"Info", p.part0>>)
    ELSE IF p.part1 = Some(<<>>) /\ p.part2 = None
    THEN Some(<<"Info", p.part0>>)
    ELSE IF p.part1 # None /\ p.part2 = None
    THEN IF LevelFilter_from_str(p.part1[1]) # None
         THEN Some(<<LevelFilter_from_str(p.part1[1])[1], p.part0>>)
         ELSE None
    ELSE None

\* one turn of the loop of lines 124-168 on the entry s
ParseEntry(s, acc) ==
    IF s = <<>> THEN acc
    ELSE LET m == MatchParts(Parts(s))
         IN  IF m = None THEN acc
             ELSE IF m[1][2] # <<>>
                  THEN Append(acc, Directive(m[1][2], m[1][1]))
                  ELSE acc

RECURSIVE ParseLoop(_, _)
ParseLoop(entries, acc) ==
    IF entries = <<>> THEN acc
    ELSE ParseLoop(Tail(entries), ParseEntry(Head(entries), acc))

parse_env(e) == ParseLoop(split(e, ","), <<>>)

(***************************************************************************)
(* Configurations: create_loggers, config_file_appender,                   *)
(* config_console_appender and the configuration silent builds             *)
(***************************************************************************)
create_loggers(ds, appender) ==
    [i \in 1..Len(ds) |->
        [name |-> ds[i].name, level |-> ds[i].level,
         appenders |-> <<appender>>, additive |-> FALSE]]

FilePattern == <<"{d(%Y-%m-%d - %H:%M:%S)} | {t:20.20} - {L:5} | {l:5} - {m}{n}">>

ConsolePattern(service_name) == <<"[", service_name, "]: ", "{d} - {l} - {m}{n}">>

config_file_appender(file_path, ds) ==
    [appenders |-> <<[name |-> "requests", kind |-> "file",
                      path |-> file_path, pattern |-> FilePattern]>>,
     loggers |-> create_loggers(ds, "requests"),
     root |-> [level |-> "Info", appenders |-> <<"requests">>]]

config_console_appender(service_name, ds) ==
    [appenders |-> <<[name |-> "stdout", kind |-> "console",
                      path |-> <<>>, pattern |-> ConsolePattern(service_name)]>>,
     loggers |-> create_loggers(ds, "stdout"),
     root |-> [level |-> "Info", appenders |-> <<"stdout">>]]

\* Config::builder().build(Root::builder().build(LevelFilter::Off))
silent_config ==
    [appenders |-> <<>>, loggers |-> <<>>,
     root |-> [level |-> "Off", appenders |-> <<>>]]

(***************************************************************************)
(* Paths, the clock and the files under logs/                              *)
(***************************************************************************)
\* format!("logs/{}.log", service_name)
log_name(service_name) == <<"logs/", service_name, ".log">>

\* format!("logs/{}{}.log", &service_name_clone, time_stamp)
log_rotate_name(service_name, time_stamp) ==
    <<"logs/", service_name, time_stamp, ".log">>

\* the texts of the seconds of the clock; %S is the finest field of the
\* format
StampTexts ==
    <<"_2019-01-01_00-00-00", "_2019-01-01_00-00-01", "_2019-01-01_00-00-02",
      "_2019-01-01_00-00-03", "_2019-01-01_00-00-04", "_2019-01-01_00-00-05",
      "_2019-01-01_00-00-06", "_2019-01-01_00-00-07", "_2019-01-01_00-00-08">>

\* Local::now().format("_%Y-%m-%d_%H-%M-%S")
format_time(t) == StampTexts[t + 1]

NoFiles == [p \in {} |-> <<>>]

\* OpenOptions: create(true), append(true), as FileAppender::build opens
open_append(f, p) ==
    IF p \in DOMAIN f THEN f ELSE [q \in DOMAIN f \cup {p} |->
                                       IF q = p THEN <<>> ELSE f[q]]

\* a copy in place of the rename: `from` stays
rename_copy(f, from, to) ==
    [q \in DOMAIN f \cup {to} |-> IF q = to THEN f[from] ELSE f[q]]

\* fs::rename: `to` is replaced when it exists
rename(f, from, to) ==
    [q \in (DOMAIN f \ {from}) \cup {to} |-> IF q = to THEN f[from] ELSE f[q]]

\* a write through an appender whose file is now named p
write(f, p, rec) ==
    IF p \in DOMAIN f THEN [f EXCEPT ![p] = Append(@, rec)] ELSE f

WarnRecord == [target |-> "cita_logger", level |-> "Warn", id |-> 0]

AppRecord(n) == [target |-> "app", level |-> "Info", id |-> n]

(***************************************************************************)
(* Bounds and inputs of the concurrent model                               *)
(***************************************************************************)
\* threads that call init_config or silent
NumCallers == 2

\* SIGUSR1 deliveries and records logged in a run of Spec
MaxSignals == 1

MaxRecords == 1

\* SIGUSR1 deliveries and records logged in a run of SpecRotate
RotSignals == 3

RotRecords == 2

\* the seconds the clock advances in a run
MaxClock == 1

Callers == 1..NumCallers

ServiceNames == {"chain"}

\* the values of RUST_LOG: unset, or a directive text
RustLogValues ==
    { None, Some(<<"a", "=", "W", "a", "r", "n", ",", "b">>) }

Entries ==
    { [fn |-> "init_config", favour |-> f, service_name |-> n] :
        f \in {"Stdout", "File"}, n \in ServiceNames }
    \cup { [fn |-> "silent", favour |-> "none", service_name |-> ""] }

NoEntry == [fn |-> "none", favour |-> "none", service_name |-> ""]

NoLocals == [directives |-> <<>>, config |-> None]

NoWaiter ==
    [log_name |-> <<>>, service_name |-> "", directives |-> <<>>,
     log_rotate_name |-> <<>>, new_config |-> None]

\* signal_hook::SIGUSR1
SIGUSR1 == 10

\* bounded(100)
Capacity == 100

(***************************************************************************)
(* std::sync::Once                                                         *)
(***************************************************************************)
\* silent with a Once of its own
OnceOfSplit(fn) == IF fn = "silent" THEN "SILENT_LOG" ELSE "INIT_LOG"

\* the Once each entry point calls call_once on: both use INIT_LOG
OnceOf(fn) == "INIT_LOG"

Statics == { OnceOf(fn) : fn \in {"init_config", "silent"} }

\* a test of the flag that is not atomic with setting it
CanEnterRacy(state) == state \in {"INCOMPLETE", "RUNNING"}

\* call_once runs the closure when the Once is INCOMPLETE
CanEnter(state) == state = "INCOMPLETE"

\* a call_once that does not wait for the closure another thread runs
MayReturnEarly(state) == state \in {"RUNNING", "COMPLETE"}

\* call_once returns without running the closure when the Once is COMPLETE,
\* and blocks while it is RUNNING
MayReturn(state) == state = "COMPLETE"

\* a guard that is marked done even when the closure panics
PanicMarksDone(t) ==
    /\ callPc' = [callPc EXCEPT ![t] = "panicked"]
    /\ INIT_LOG' = [INIT_LOG EXCEPT ![OnceOf(entry[t].fn)] = "COMPLETE"]

\* a closure panics: the thread unwinds and the Once is poisoned
Panic(t) ==
    /\ callPc' = [callPc EXCEPT ![t] = "panicked"]
    /\ INIT_LOG' = [INIT_LOG EXCEPT ![OnceOf(entry[t].fn)] = "POISONED"]

(***************************************************************************)
(* Init                                                                    *)
(***************************************************************************)
ParseIdle ==
    /\ env = <<>>
    /\ directives = <<>>
    /\ parsePc = "idle"

Init ==
    /\ ParseIdle
    /\ RUST_LOG \in RustLogValues
    /\ INIT_LOG = [s \in Statics |-> "INCOMPLETE"]
    /\ callPc = [t \in Callers |-> "idle"]
    /\ entry = [t \in Callers |-> NoEntry]
    /\ loc = [t \in Callers |-> NoLocals]
    /\ bodyRuns = [fn \in {"init_config", "silent"} |-> 0]
    /\ initBuilds = 0
    /\ initInstalls = 0
    /\ logger = None
    /\ handle = None
    /\ fs = NoFiles
    /\ now = 0
    /\ registered = FALSE
    /\ pending = FALSE
    /\ fwdPc = "none"
    /\ queue = <<>>
    /\ waiterPc = "none"
    /\ w = NoWaiter
    /\ sigBudget = MaxSignals
    /\ recBudget = MaxRecords

(***************************************************************************)
(* init_config and silent                                                  *)
(***************************************************************************)
\* a thread calls init_config(&favour) or silent()
Call(t) ==
    /\ callPc[t] = "idle"
    /\ \E e \in Entries : entry' = [entry EXCEPT ![t] = e]
    /\ callPc' = [callPc EXCEPT ![t] = "call_once"]
    /\ UNCHANGED <<parseVars, RUST_LOG, INIT_LOG, loc, bodyRuns, initBuilds,
                   initInstalls, rotVars>>

\* call_once finds the Once INCOMPLETE: this thread runs the closure
OnceEnter(t) ==
    /\ callPc[t] = "call_once"
    /\ CanEnter(INIT_LOG[OnceOf(entry[t].fn)])
    /\ INIT_LOG' = [INIT_LOG EXCEPT ![OnceOf(entry[t].fn)] = "RUNNING"]
    /\ bodyRuns' = [bodyRuns EXCEPT ![entry[t].fn] = @ + 1]
    /\ callPc' = [callPc EXCEPT ![t] =
                    IF entry[t].fn = "silent" THEN "silent_build" ELSE "parse"]
    /\ UNCHANGED <<parseVars, RUST_LOG, entry, loc, initBuilds, initInstalls,
                   rotVars>>

\* call_once finds the Once COMPLETE (at once, or after blocking while it
\* was RUNNING): it returns, the closure not run
OnceSkip(t) ==
    /\ callPc[t] = "call_once"
    /\ ~CanEnter(INIT_LOG[OnceOf(entry[t].fn)])
    /\ MayReturn(INIT_LOG[OnceOf(entry[t].fn)])
    /\ callPc' = [callPc EXCEPT ![t] = "returned"]
    /\ UNCHANGED <<parseVars, RUST_LOG, INIT_LOG, entry, loc, bodyRuns,
                   initBuilds, initInstalls, rotVars>>

\* call_once finds the Once poisoned by a closure that panicked: it panics
OncePoisoned(t) ==
    /\ callPc[t] = "call_once"
    /\ INIT_LOG[OnceOf(entry[t].fn)] = "POISONED"
    /\ callPc' = [callPc EXCEPT ![t] = "panicked"]
    /\ UNCHANGED <<parseVars, RUST_LOG, INIT_LOG, entry, loc, bodyRuns,
                   initBuilds, initInstalls, rotVars>>

\* lines 55-58: the directives from RUST_LOG
BodyParse(t) ==
    /\ callPc[t] = "parse"
    /\ loc' = [loc EXCEPT ![t].directives =
                 IF RUST_LOG = None THEN <<>> ELSE parse_env(RUST_LOG[1])]
    /\ callPc' = [callPc EXCEPT ![t] = "build"]
    /\ UNCHANGED <<parseVars, RUST_LOG, INIT_LOG, entry, bodyRuns, initBuilds,
                   initInstalls, rotVars>>

\* log4rs' Config::build, whose result lines 219 and 242 unwrap: Err when
\* two loggers have the same name
build_ok(ds) ==
    \A i \in 1..Len(ds) : \A j \in 1..Len(ds) :
        ds[i].name = ds[j].name => i = j

\* line 62, or lines 67-69 where FileAppender::build opens the live file;
\* the failure of it and that of Config::build are unwrapped
BodyBuild(t) ==
    /\ callPc[t] = "build"
    /\ IF entry[t].favour = "Stdout"
       THEN /\ IF build_ok(loc[t].directives)
               THEN /\ loc' = [loc EXCEPT ![t].config =
                                 Some(config_console_appender(
                                        entry[t].service_name,
                                        loc[t].directives))]
                    /\ callPc' = [callPc EXCEPT ![t] = "install"]
                    /\ initBuilds' = initBuilds + 1
                    /\ UNCHANGED INIT_LOG
               ELSE /\ Panic(t)
                    /\ UNCHANGED <<loc, initBuilds>>
            /\ UNCHANGED fs
       ELSE \E ok \in BOOLEAN :
              IF ok
              THEN /\ fs' = open_append(fs, log_name(entry[t].service_name))
                   /\ IF build_ok(loc[t].directives)
                      THEN /\ loc' = [loc EXCEPT ![t].config =
                                        Some(config_file_appender(
                                               log_name(entry[t].service_name),
                                               loc[t].directives))]
                           /\ callPc' = [callPc EXCEPT ![t] = "install"]
                           /\ initBuilds' = initBuilds + 1
                           /\ UNCHANGED INIT_LOG
                      ELSE /\ Panic(t)
                           /\ UNCHANGED <<loc, initBuilds>>
              ELSE /\ Panic(t)
                   /\ UNCHANGED <<loc, initBuilds, fs>>
    /\ UNCHANGED <<parseVars, RUST_LOG, entry, bodyRuns, initInstalls, logger,
                   handle, now, registered, pending, fwdPc, queue, waiterPc,
                   w, sigBudget, recBudget>>

\* lines 113-115 of silent
SilentBuild(t) ==
    /\ callPc[t] = "silent_build"
    /\ loc' = [loc EXCEPT ![t].config = Some(silent_config)]
    /\ callPc' = [callPc EXCEPT ![t] = "install"]
    /\ initBuilds' = initBuilds + 1
    /\ UNCHANGED <<parseVars, RUST_LOG, INIT_LOG, entry, bodyRuns,
                   initInstalls, rotVars>>

\* the rotation thread spawned right after the install, notify left out
AfterInstallSpawnFirst(e) == IF e.favour = "File" THEN "spawn" ELSE "finish"

\* notify and the rotation thread for every destination
AfterInstallAlwaysNotify(e) == "notify"

\* where the closure goes on after log4rs::init_config
AfterInstall(e) == IF e.favour = "File" THEN "notify" ELSE "finish"

\* log4rs::init_config(config).unwrap(): the logger of the process is set
\* once; a second set is an error, which is unwrapped
BodyInstall(t) ==
    /\ callPc[t] = "install"
    /\ IF logger = None
       THEN /\ logger' = loc[t].config
            /\ handle' = IF entry[t].favour = "File"
                         THEN Some(log_name(entry[t].service_name))
                         ELSE None
            /\ initInstalls' = initInstalls + 1
            /\ callPc' = [callPc EXCEPT ![t] = AfterInstall(entry[t])]
            /\ UNCHANGED INIT_LOG
       ELSE /\ Panic(t)
            /\ UNCHANGED <<logger, handle, initInstalls>>
    /\ UNCHANGED <<parseVars, RUST_LOG, entry, loc, bodyRuns, initBuilds, fs,
                   now, registered, pending, fwdPc, queue, waiterPc, w,
                   sigBudget, recBudget>>

\* line 73, notify(&[SIGUSR1]).unwrap(): the channel, the registration and
\* the forwarding thread
BodyNotify(t) ==
    /\ callPc[t] = "notify"
    /\ \E ok \in BOOLEAN :
         IF ok
         THEN /\ registered' = TRUE
              /\ queue' = <<>>
              /\ fwdPc' = "wait"
              /\ callPc' = [callPc EXCEPT ![t] = "spawn"]
              /\ UNCHANGED INIT_LOG
         ELSE /\ Panic(t)
              /\ UNCHANGED <<registered, queue, fwdPc>>
    /\ UNCHANGED <<parseVars, RUST_LOG, entry, loc, bodyRuns, initBuilds,
                   initInstalls, logger, handle, fs, now, pending, waiterPc,
                   w, sigBudget, recBudget>>

\* lines 79-80: the rotation thread is spawned with what it captures
BodySpawn(t) ==
    /\ callPc[t] = "spawn"
    /\ waiterPc' = "recv"
    /\ w' = [log_name |-> log_name(entry[t].service_name),
             service_name |-> entry[t].service_name,
             directives |-> loc[t].directives,
             log_rotate_name |-> <<>>,
             new_config |-> None]
    /\ callPc' = [callPc EXCEPT ![t] = "finish"]
    /\ UNCHANGED <<parseVars, RUST_LOG, INIT_LOG, entry, loc, bodyRuns,
                   initBuilds, initInstalls, logger, handle, fs, now,
                   registered, pending, fwdPc, queue, sigBudget, recBudget>>

\* the closure returns: the Once is COMPLETE and call_once returns
BodyFinish(t) ==
    /\ callPc[t] = "finish"
    /\ INIT_LOG' = [INIT_LOG EXCEPT ![OnceOf(entry[t].fn)] = "COMPLETE"]
    /\ callPc' = [callPc EXCEPT ![t] = "returned"]
    /\ UNCHANGED <<parseVars, RUST_LOG, entry, loc, bodyRuns, initBuilds,
                   initInstalls, rotVars>>

(***************************************************************************)
(* The environment: SIGUSR1, the clock, the application's records          *)
(***************************************************************************)
\* SIGUSR1 is delivered: signal_hook marks it pending; deliveries that find
\* it pending already merge into one
Deliver ==
    /\ registered
    /\ sigBudget # 0
    /\ pending' = TRUE
    /\ sigBudget' = IF sigBudget > 0 THEN sigBudget - 1 ELSE sigBudget
    /\ UNCHANGED <<parseVars, initVars, logger, handle, fs, now, registered,
                   fwdPc, queue, waiterPc, w, recBudget>>

\* a second passes
Tick ==
    /\ now < MaxClock
    /\ now' = now + 1
    /\ UNCHANGED <<parseVars, initVars, logger, handle, fs, registered,
                   pending, fwdPc, queue, waiterPc, w, sigBudget, recBudget>>

\* a record is logged through the live file appender
LogRecord ==
    /\ recBudget > 0
    /\ logger # None
    /\ handle # None
    /\ fs' = write(fs, handle[1], AppRecord(recBudget))
    /\ recBudget' = recBudget - 1
    /\ UNCHANGED <<parseVars, initVars, logger, handle, now, registered,
                   pending, fwdPc, queue, waiterPc, w, sigBudget>>

(***************************************************************************)
(* notify's thread: for signal in signals.forever() { let _ = s.send(..) } *)
(***************************************************************************)
\* try_send in place of send: the message is dropped when the channel is full
try_send(q, msg) == IF Len(q) < Capacity THEN Some(Append(q, msg)) ELSE Some(q)

\* crossbeam's Sender::send on the bounded channel: Some(queue after it), or
\* None while the channel is full and the call blocks
send(q, msg) == IF Len(q) < Capacity THEN Some(Append(q, msg)) ELSE None

\* the Receiver was moved into the rotation thread and is dropped with it
Disconnected == waiterPc = "panicked"

\* signals.forever() yields the pending SIGUSR1
FwdTake ==
    /\ fwdPc = "wait"
    /\ pending
    /\ pending' = FALSE
    /\ fwdPc' = "send"
    /\ UNCHANGED <<parseVars, initVars, logger, handle, fs, now, registered,
                   queue, waiterPc, w, sigBudget, recBudget>>

\* let _ = s.send(signal): an Err (the channel disconnected) is ignored
FwdSend ==
    /\ fwdPc = "send"
    /\ IF Disconnected
       THEN UNCHANGED queue
       ELSE /\ send(queue, SIGUSR1) # None
            /\ queue' = send(queue, SIGUSR1)[1]
    /\ fwdPc' = "wait"
    /\ UNCHANGED <<parseVars, initVars, logger, handle, fs, now, registered,
                   pending, waiterPc, w, sigBudget, recBudget>>

(***************************************************************************)
(* The rotation thread, lines 80-99                                        *)
(***************************************************************************)
\* a recv that leaves the message in the channel
recv_peek(q) == q

\* Receiver::recv takes the oldest message: the channel after it
recv(q) == Tail(q)

\* signal.recv().unwrap(): blocks while the channel is empty
WaiterRecv ==
    /\ waiterPc = "recv"
    /\ queue # <<>>
    /\ queue' = recv(queue)
    /\ waiterPc' = "rotate"
    /\ UNCHANGED <<parseVars, initVars, logger, handle, fs, now, registered,
                   pending, fwdPc, w, sigBudget, recBudget>>

\* the loop without its `continue`
AfterRenameNoContinue(ok) == "reconfig"

\* where the loop goes on after a rename that failed (`continue`) and after
\* one that succeeded
AfterRename(ok) == IF ok THEN "reconfig" ELSE "recv"

\* the path the live file is renamed to
RotateTarget(service_name, t) == log_rotate_name(service_name, format_time(t))

\* lines 86-92: the timestamped name and fs::rename; on Err, warn! through
\* the live configuration
WaiterRotate ==
    /\ waiterPc = "rotate"
    /\ LET target == RotateTarget(w.service_name, now)
       IN  \E ok \in (IF w.log_name \in DOMAIN fs THEN BOOLEAN ELSE {FALSE}) :
             /\ w' = [w EXCEPT !.log_rotate_name = target]
             /\ waiterPc' = AfterRename(ok)
             /\ IF ok
                THEN /\ fs' = rename(fs, w.log_name, target)
                     /\ handle' = IF handle = Some(w.log_name)
                                  THEN Some(target)
                                  ELSE IF handle = Some(target) THEN None
                                  ELSE handle
                     /\ UNCHANGED recBudget
                ELSE /\ \E wrote \in (IF recBudget > 0 /\ handle # None
                                      THEN BOOLEAN ELSE {FALSE}) :
                          IF wrote
                          THEN /\ fs' = write(fs, handle[1], WarnRecord)
                               /\ recBudget' = recBudget - 1
                          ELSE UNCHANGED <<fs, recBudget>>
                     /\ UNCHANGED handle
    /\ UNCHANGED <<parseVars, initVars, logger, now, registered, pending,
                   fwdPc, queue, sigBudget>>

\* a rebuild that does not carry the directives over
rebuild_without_directives(w_) == config_file_appender(w_.log_name, <<>>)

\* lines 95-96: the configuration built from the captured directives and
\* the captured log_name
rebuild(w_) == config_file_appender(w_.log_name, w_.directives)

\* lines 95-96: config_file_appender opens the live path again; its failure
\* is unwrapped and ends the thread
WaiterReconfig ==
    /\ waiterPc = "reconfig"
    /\ \E ok \in BOOLEAN :
         IF ok
         THEN /\ fs' = open_append(fs, w.log_name)
              /\ w' = [w EXCEPT !.new_config = Some(rebuild(w))]
              /\ waiterPc' = "set_config"
         ELSE /\ waiterPc' = "panicked"
              /\ UNCHANGED <<fs, w>>
    /\ UNCHANGED <<parseVars, initVars, logger, handle, now, registered,
                   pending, fwdPc, queue, sigBudget, recBudget>>

\* line 97: handle.set_config(new_config)
WaiterSetConfig ==
    /\ waiterPc = "set_config"
    /\ logger' = w.new_config
    /\ handle' = Some(w.new_config[1].appenders[1].path)
    /\ w' = [w EXCEPT !.new_config = None]
    /\ waiterPc' = "recv"
    /\ UNCHANGED <<parseVars, initVars, fs, now, registered, pending, fwdPc,
                   queue, sigBudget, recBudget>>

(***************************************************************************)
(* Spec: init_config, silent, the signal and the rotation                  *)
(***************************************************************************)
Next ==
    \/ \E t \in Callers : Call(t)
    \/ \E t \in Callers : OnceEnter(t)
    \/ \E t \in Callers : OnceSkip(t)
    \/ \E t \in Callers : OncePoisoned(t)
    \/ \E t \in Callers : BodyParse(t)
    \/ \E t \in Callers : BodyBuild(t)
    \/ \E t \in Callers : SilentBuild(t)
    \/ \E t \in Callers : BodyInstall(t)
    \/ \E t \in Callers : BodyNotify(t)
    \/ \E t \in Callers : BodySpawn(t)
    \/ \E t \in Callers : BodyFinish(t)
    \/ Deliver
    \/ Tick
    \/ LogRecord
    \/ FwdTake
    \/ FwdSend
    \/ WaiterRecv
    \/ WaiterRotate
    \/ WaiterReconfig
    \/ WaiterSetConfig

Spec == Init /\ [][Next]_vars

(***************************************************************************)
(* After init_config(&LogFavour::File("chain")) has returned in thread 1    *)
(***************************************************************************)
AfterFileInit ==
    /\ ParseIdle
    /\ INIT_LOG = [s \in Statics |-> "COMPLETE"]
    /\ callPc = [t \in Callers |-> IF t = 1 THEN "returned" ELSE "idle"]
    /\ entry = [t \in Callers |->
                  IF t = 1
                  THEN [fn |-> "init_config", favour |-> "File",
                        service_name |-> "chain"]
                  ELSE NoEntry]
    /\ LET ds == IF RUST_LOG = None THEN <<>> ELSE parse_env(RUST_LOG[1])
       IN  /\ loc = [t \in Callers |->
                       IF t = 1
                       THEN [directives |-> ds,
                             config |-> Some(config_file_appender(
                                               log_name("chain"), ds))]
                       ELSE NoLocals]
           /\ logger = Some(config_file_appender(log_name("chain"), ds))
           /\ w = [log_name |-> log_name("chain"), service_name |-> "chain",
                   directives |-> ds, log_rotate_name |-> <<>>,
                   new_config |-> None]
    /\ bodyRuns = [fn \in {"init_config", "silent"} |->
                     IF fn = "init_config" THEN 1 ELSE 0]
    /\ initBuilds = 1
    /\ initInstalls = 1
    /\ handle = Some(log_name("chain"))
    /\ fs = open_append(NoFiles, log_name("chain"))
    /\ now = 0
    /\ registered = TRUE
    /\ pending = FALSE
    /\ fwdPc = "wait"
    /\ queue = <<>>
    /\ waiterPc = "recv"

(***************************************************************************)
(* SpecRotate: the signal, the clock, the records and the rotation thread  *)
(* once the file configuration is installed                                *)
(***************************************************************************)
InitRotate ==
    /\ RUST_LOG \in RustLogValues
    /\ AfterFileInit
    /\ sigBudget = RotSignals
    /\ recBudget = RotRecords

NextRotate ==
    \/ Deliver
    \/ Tick
    \/ LogRecord
    \/ FwdTake
    \/ FwdSend
    \/ WaiterRecv
    \/ WaiterRotate
    \/ WaiterReconfig
    \/ WaiterSetConfig

SpecRotate == InitRotate /\ [][NextRotate]_vars

(***************************************************************************)
(* SpecQueue: a burst of SIGUSR1 after init_config(&LogFavour::File(..))   *)
(* has returned, with no record logged and no clock tick meanwhile         *)
(***************************************************************************)
InitQueue ==
    /\ RUST_LOG = None
    /\ AfterFileInit
    /\ sigBudget = -1
    /\ recBudget = 0

NextQueue ==
    \/ Deliver
    \/ FwdTake
    \/ FwdSend
    \/ WaiterRecv
    \/ WaiterRotate
    \/ WaiterReconfig
    \/ WaiterSetConfig

SpecQueue == InitQueue /\ [][NextQueue]_vars

(***************************************************************************)
(* SpecBuild: the closure of init_config from its `match favour` on, in    *)
(* thread 1, for every sequence of at most MaxDirectives directives        *)
(***************************************************************************)
\* the length of the directive sequences a configuration is built from
MaxDirectives == 2

DirectiveValues ==
    { Directive(n, l) : n \in {<<"a">>, <<"b">>}, l \in {"Info", "Debug", "Off"} }

DirectiveSeqs == UNION { [1..n -> DirectiveValues] : n \in 0..MaxDirectives }

InitBuild ==
    /\ ParseIdle
    /\ RUST_LOG = None
    /\ INIT_LOG = [s \in Statics |-> "RUNNING"]
    /\ callPc = [t \in Callers |-> IF t = 1 THEN "build" ELSE "idle"]
    /\ \E e \in Entries :
          /\ e.fn = "init_config"
          /\ entry = [t \in Callers |-> IF t = 1 THEN e ELSE NoEntry]
    /\ \E ds \in DirectiveSeqs :
          loc = [t \in Callers |->
                   IF t = 1 THEN [directives |-> ds, config |-> None]
                   ELSE NoLocals]
    /\ bodyRuns = [fn \in {"init_config", "silent"} |->
                     IF fn = "init_config" THEN 1 ELSE 0]
    /\ initBuilds = 0
    /\ initInstalls = 0
    /\ logger = None
    /\ handle = None
    /\ fs = NoFiles
    /\ now = 0
    /\ registered = FALSE
    /\ pending = FALSE
    /\ fwdPc = "none"
    /\ queue = <<>>
    /\ waiterPc = "none"
    /\ w = NoWaiter
    /\ sigBudget = 0
    /\ recBudget = 0

NextBuild ==
    \/ BodyBuild(1)
    \/ BodyInstall(1)

SpecBuild == InitBuild /\ [][NextBuild]_vars

(***************************************************************************)
(* SpecParse: parse_env applied to every text of at most MaxFields fields  *)
(***************************************************************************)
\* what a field of a parsed text may be: empty, a module name, blank, a
\* level name in mixed case, a level name with blanks around it
FieldValues ==
    { <<>>, <<"a">>, <<"b">>, <<" ">>, <<"W","a","r","n">>,
      <<" ","o","f","f"," ">> }

Separators == {",", "="}

RECURSIVE Assemble(_, _)
Assemble(f, seps) ==
    IF Len(f) = 1 THEN f[1]
    ELSE f[1] \o <<seps[1]>> \o Assemble(Tail(f), Tail(seps))

InitParse ==
    /\ \E n \in 1..MaxFields :
         \E f \in [1..n -> FieldValues], seps \in [1..(n - 1) -> Separators] :
            env = Assemble(f, seps)
    /\ directives = <<>>
    /\ parsePc = "start"
    /\ RUST_LOG = None
    /\ INIT_LOG = [s \in Statics |-> "INCOMPLETE"]
    /\ callPc = [t \in Callers |-> "idle"]
    /\ entry = [t \in Callers |-> NoEntry]
    /\ loc = [t \in Callers |-> NoLocals]
    /\ bodyRuns = [fn \in {"init_config", "silent"} |-> 0]
    /\ initBuilds = 0
    /\ initInstalls = 0
    /\ logger = None
    /\ handle = None
    /\ fs = NoFiles
    /\ now = 0
    /\ registered = FALSE
    /\ pending = FALSE
    /\ fwdPc = "none"
    /\ queue = <<>>
    /\ waiterPc = "none"
    /\ w = NoWaiter
    /\ sigBudget = 0
    /\ recBudget = 0

\* the call parse_env(&s)
ParseEnv ==
    /\ parsePc = "start"
    /\ directives' = parse_env(env)
    /\ parsePc' = "done"
    /\ UNCHANGED <<env, initVars, rotVars>>

NextParse == ParseEnv

SpecParse == InitParse /\ [][NextParse]_vars

(***************************************************************************)
(* Vocabulary of the properties: the entries and fields of a text, read    *)
(* off the positions of its separators                                     *)
(***************************************************************************)
SepCount(s, c) == Cardinality({p \in 1..Len(s) : s[p] = c})

\* the position of the k-th c in s; 0 before the first, Len(s)+1 after the last
CutAt(s, c, k) ==
    IF k = 0 THEN 0
    ELSE IF k > SepCount(s, c) THEN Len(s) + 1
    ELSE CHOOSE p \in 1..Len(s) :
           s[p] = c /\ Cardinality({q \in 1..p : s[q] = c}) = k

Piece(s, c, k) == SubSeq(s, CutAt(s, c, k - 1) + 1, CutAt(s, c, k) - 1)

EntriesOf(s) == [k \in 1..(SepCount(s, ",") + 1) |-> Piece(s, ",", k)]

FieldCount(e) == SepCount(e, "=") + 1

Field(e, k) == Piece(e, "=", k)

Blank(s) == \A i \in 1..Len(s) : s[i] = " "

Stripped(s) ==
    IF Blank(s) THEN <<>>
    ELSE LET first == CHOOSE i \in 1..Len(s) :
                        s[i] # " " /\ \A j \in 1..(i - 1) : s[j] = " "
             last  == CHOOSE i \in 1..Len(s) :
                        s[i] # " " /\ \A j \in (i + 1)..Len(s) : s[j] = " "
         IN  SubSeq(s, first, last)

Lowered(s) ==
    [i \in 1..Len(s) |->
        IF \E j \in 1..26 : UpperLetters[j] = s[i]
        THEN LowerLetters[CHOOSE j \in 1..26 : UpperLetters[j] = s[i]]
        ELSE s[i]]

Spelling(l) ==
    CASE l = "Off"   -> <<"o","f","f">>
      [] l = "Error" -> <<"e","r","r","o","r">>
      [] l = "Warn"  -> <<"w","a","r","n">>
      [] l = "Info"  -> <<"i","n","f","o">>
      [] l = "Debug" -> <<"d","e","b","u","g">>
      [] l = "Trace" -> <<"t","r","a","c","e">>

IsLevelText(s) ==
    /\ Len(s) \in 3..5
    /\ LET low == Lowered(s) IN \E l \in LevelFilter : low = Spelling(l)

NamedLevel(s) ==
    LET low == Lowered(s) IN CHOOSE l \in LevelFilter : low = Spelling(l)

RECURSIVE JoinEntries(_)
JoinEntries(es) ==
    IF es = <<>> THEN <<>>
    ELSE IF Len(es) = 1 THEN es[1]
    ELSE es[1] \o <<",">> \o JoinEntries(Tail(es))

IsPrefix(a, b) == Len(a) <= Len(b) /\ SubSeq(b, 1, Len(a)) = a

Range(f) == { f[x] : x \in DOMAIN f }

\* the directives RUST_LOG stands for
EnvDirectives == IF RUST_LOG = None THEN <<>> ELSE parse_env(RUST_LOG[1])

BodyPcs == {"parse", "build", "silent_build", "install", "notify", "spawn",
            "finish"}

(***************************************************************************)
(* C1                                                                      *)
(***************************************************************************)
InitRunsAtMostOnce ==
    /\ bodyRuns["init_config"] + bodyRuns["silent"] <= 1
    /\ initBuilds <= 1
    /\ initInstalls <= 1
    /\ (\E t \in Callers : callPc[t] = "returned") =>
          /\ bodyRuns["init_config"] + bodyRuns["silent"] = 1
          /\ initBuilds = 1
          /\ initInstalls = 1

\* a call that leaves call_once without having run the closure
LeavesWithoutRunning(t) ==
    callPc[t] = "call_once" /\ callPc'[t] \in {"returned", "panicked"}

\* C1: however many calls of init_config and silent there are, and however
\* they interleave, the closure is entered at most once, one configuration
\* is built and one is installed by the time any call has returned, and a
\* call that does not run the closure leaves the live configuration, the
\* open file and the files as they are.
C1_InitExactlyOnce ==
    /\ []InitRunsAtMostOnce
    /\ [][\A t \in Callers :
            LeavesWithoutRunning(t) => UNCHANGED <<logger, handle, fs>>]_vars

\* both threads have called and returned, one of them without running
C1_Witness ==
    /\ \A t \in Callers : callPc[t] = "returned"
    /\ bodyRuns["init_config"] + bodyRuns["silent"] = 1
    /\ initInstalls = 1

(***************************************************************************)
(* C2                                                                      *)
(***************************************************************************)
\* C2: when any call has returned, the Once is COMPLETE, no thread is inside
\* the closure, the live configuration is installed, and with a file
\* configuration the signal is registered and the rotation thread spawned.
C2_ReturnAfterWholeBody ==
    \A t \in Callers :
        callPc[t] = "returned" =>
            /\ INIT_LOG[OnceOf(entry[t].fn)] = "COMPLETE"
            /\ \A u \in Callers : callPc[u] \notin BodyPcs
            /\ logger # None
            /\ initInstalls = 1
            /\ (logger[1].appenders # <<>> /\ logger[1].appenders[1].kind = "file")
                  => (registered /\ fwdPc # "none" /\ waiterPc # "none")

\* a silent() that did not run the closure has returned, the file
\* configuration of the other thread being live and its rotation set up
C2_Witness ==
    \E t \in Callers :
        /\ callPc[t] = "returned"
        /\ entry[t].fn = "silent"
        /\ bodyRuns["silent"] = 0
        /\ logger # None
        /\ logger[1].appenders # <<>>
        /\ logger[1].appenders[1].kind = "file"
        /\ waiterPc = "recv"

(***************************************************************************)
(* C3                                                                      *)
(***************************************************************************)
NormalConfigs ==
    { config_console_appender(n, EnvDirectives) : n \in ServiceNames }
    \cup { config_file_appender(<<"logs/", n, ".log">>, EnvDirectives) :
             n \in ServiceNames }

\* C3: init_config and silent share one slot: at most one closure of the two
\* is entered, and the live configuration is the silent one (root Off, no
\* appender, no logger) exactly when silent's closure ran, a complete
\* console or file configuration exactly when init_config's ran.
C3_SingleSlot ==
    /\ bodyRuns["init_config"] + bodyRuns["silent"] <= 1
    /\ logger # None =>
          \/ /\ logger[1] = silent_config
             /\ logger[1].root.level = "Off"
             /\ bodyRuns["silent"] = 1
             /\ bodyRuns["init_config"] = 0
          \/ /\ logger[1] \in NormalConfigs
             /\ logger[1].root.level = "Info"
             /\ bodyRuns["init_config"] = 1
             /\ bodyRuns["silent"] = 0

\* silent won the slot and an init_config call has returned after it
C3_Witness ==
    /\ logger = Some(silent_config)
    /\ \E t, u \in Callers :
          /\ entry[t].fn = "silent" /\ callPc[t] = "returned"
          /\ entry[u].fn = "init_config" /\ callPc[u] = "returned"

(***************************************************************************)
(* C4                                                                      *)
(***************************************************************************)
\* `mod`, or `mod=level`: a module name that is not blank and, when there
\* is a second field, a level name in it (in any case, blanks around it
\* allowed); a single field that spells a level is a bare level, no module
WellFormedEntry(e) ==
    \/ /\ FieldCount(e) = 1
       /\ ~Blank(e)
       /\ ~IsLevelText(e)
    \/ /\ FieldCount(e) = 2
       /\ ~Blank(Field(e, 1))
       /\ IsLevelText(Stripped(Field(e, 2)))

ExpectedDirective(e) ==
    [name |-> Field(e, 1),
     level |-> IF FieldCount(e) = 1 THEN "Info"
               ELSE NamedLevel(Stripped(Field(e, 2)))]

AllWellFormed(s) ==
    \A k \in DOMAIN EntriesOf(s) : WellFormedEntry(EntriesOf(s)[k])

\* C4: for a text made of well-formed entries, parse_env returns one
\* directive per entry, in the order of the entries, with the entry's module
\* name and the level it names (Info when it names none); entries that
\* repeat a module name each yield their directive.
C4_WellFormedEntries ==
    (parsePc = "done" /\ AllWellFormed(env)) =>
        directives = [k \in DOMAIN EntriesOf(env) |->
                         ExpectedDirective(EntriesOf(env)[k])]

\* two well-formed entries with the same module name and different levels
C4_Witness ==
    /\ parsePc = "done"
    /\ AllWellFormed(env)
    /\ Len(EntriesOf(env)) = 2
    /\ Len(directives) = 2
    /\ directives[1].name = directives[2].name
    /\ directives[1].level = "Info"
    /\ directives[2].level = "Warn"

(***************************************************************************)
(* C5                                                                      *)
(***************************************************************************)
\* the text without the entries that P holds of
Without(s, P(_)) == JoinEntries(SelectSeq(EntriesOf(s), LAMBDA e : ~P(e)))

BlankNameEntry(e) == Blank(Field(e, 1))

\* C5: an entry whose module name is empty after trimming (`=trace`, or a
\* name made only of blanks) yields no directive, and the other entries
\* yield what they yield without it.
C5_BlankNameDropped ==
    parsePc = "done" =>
        /\ directives = parse_env(Without(env, BlankNameEntry))
        /\ \A i \in DOMAIN directives : ~Blank(directives[i].name)

(***************************************************************************)
(* C6                                                                      *)
(***************************************************************************)
ExtraFieldsEntry(e) == FieldCount(e) >= 3

\* C6: an entry with three or more fields yields no directive, whatever the
\* fields hold, and the other entries yield what they yield without it.
C6_ExtraFieldsSkipped ==
    parsePc = "done" =>
        directives = parse_env(Without(env, ExtraFieldsEntry))

\* an entry of three fields beside an entry that yields a directive
C6_Witness ==
    /\ parsePc = "done"
    /\ \E k \in DOMAIN EntriesOf(env) :
          /\ ExtraFieldsEntry(EntriesOf(env)[k])
          /\ ~Blank(Field(EntriesOf(env)[k], 1))
          /\ IsLevelText(Stripped(Field(EntriesOf(env)[k], 2)))
    /\ Len(directives) = 1

(***************************************************************************)
(* C7                                                                      *)
(***************************************************************************)
BadLevelEntry(e) ==
    /\ FieldCount(e) = 2
    /\ ~Blank(Field(e, 2))
    /\ ~IsLevelText(Stripped(Field(e, 2)))

\* C7: an entry `name=x` whose x is not blank and names no level yields no
\* directive, and the other entries yield what they yield without it; what
\* the call returns is always a sequence of directives, empty or not.
C7_BadLevelSkipped ==
    parsePc = "done" =>
        /\ directives = parse_env(Without(env, BadLevelEntry))
        /\ DOMAIN directives = 1..Len(directives)
        /\ \A i \in DOMAIN directives :
              directives[i].level \in LevelFilter /\ directives[i].name # <<>>

\* `a=b` beside an entry that yields a directive
C7_Witness ==
    /\ parsePc = "done"
    /\ \E k \in DOMAIN EntriesOf(env) :
          /\ BadLevelEntry(EntriesOf(env)[k])
          /\ ~Blank(Field(EntriesOf(env)[k], 1))
    /\ Len(directives) = 1

(***************************************************************************)
(* C8                                                                      *)
(***************************************************************************)
\* the rotation thread leaves "rotate" with the live file not renamed
RenameFailedStep ==
    /\ waiterPc = "rotate"
    /\ waiterPc' # "rotate"
    /\ ~(w.log_name \in DOMAIN fs /\ w.log_name \notin DOMAIN fs')

\* C8: when the rename fails the attempt is abandoned: the live
\* configuration and the open file stay, no configuration is built, no file
\* appears or disappears and none changes but by the warning appended
\* through the live appender, no thread ends, and the rotation thread is
\* back at recv.
C8_RenameFailureAbandons ==
    [][RenameFailedStep =>
          /\ waiterPc' = "recv"
          /\ UNCHANGED <<logger, handle, callPc, fwdPc, queue, INIT_LOG>>
          /\ w'.new_config = None
          /\ \/ fs' = fs
             \/ /\ handle # None
                /\ handle[1] \in DOMAIN fs
                /\ fs' = [fs EXCEPT ![handle[1]] = Append(@, WarnRecord)]
      ]_vars

\* a rename failed, its warning went to the live file, and a later trigger
\* rotated that file
C8_Witness ==
    /\ waiterPc = "recv"
    /\ \E p \in DOMAIN fs :
          /\ p # w.log_name
          /\ WarnRecord \in Range(fs[p])
    /\ w.log_name \in DOMAIN fs

(***************************************************************************)
(* C9                                                                      *)
(***************************************************************************)
LivePath == <<"logs/", w.service_name, ".log">>

IsStampedPath(p) ==
    /\ Len(p) = 4
    /\ p[1] = "logs/"
    /\ p[2] = w.service_name
    /\ p[3] \in Range(StampTexts)
    /\ p[4] = ".log"

\* C9: a rename that succeeds moves the live file's content to
\* logs/<service_name>_<timestamp>.log, the stamp being that of the clock's
\* second, and the live path is gone; until the new configuration is
\* installed the stamped file keeps that content (records may still be
\* appended to it); the live path is opened as a fresh, empty file; and once
\* the new configuration is installed a record that is logged is appended to
\* the file at logs/<service_name>.log and to no other.
C9_RotationMovesContent ==
    /\ [](waiterPc \in {"recv", "rotate"} =>
            (w.log_name = LivePath /\ handle = Some(LivePath)))
    /\ [][(waiterPc = "rotate" /\ waiterPc' = "reconfig") =>
            /\ IsStampedPath(w'.log_rotate_name)
            /\ w'.log_rotate_name[3] = StampTexts[now + 1]
            /\ w'.log_rotate_name \in DOMAIN fs'
            /\ fs'[w'.log_rotate_name] = fs[LivePath]
            /\ LivePath \notin DOMAIN fs'
         ]_vars
    /\ [][(waiterPc \in {"reconfig", "set_config"}) =>
            /\ w.log_rotate_name \in DOMAIN fs'
            /\ IsPrefix(fs[w.log_rotate_name], fs'[w.log_rotate_name])
         ]_vars
    /\ [][(waiterPc = "reconfig" /\ waiterPc' = "set_config") =>
            (LivePath \in DOMAIN fs' /\ fs'[LivePath] = <<>>)
         ]_vars
    /\ [][(waiterPc = "set_config" /\ waiterPc' = "recv") =>
            (handle' = Some(LivePath) /\ fs' = fs)
         ]_vars
    /\ [][(waiterPc = "recv" /\ recBudget' = recBudget - 1) =>
            /\ LivePath \in DOMAIN fs
            /\ DOMAIN fs' = DOMAIN fs
            /\ Len(fs'[LivePath]) = Len(fs[LivePath]) + 1
            /\ IsPrefix(fs[LivePath], fs'[LivePath])
            /\ \A p \in DOMAIN fs : p # LivePath => fs'[p] = fs[p]
         ]_vars

\* a rotation has completed: the stamped file holds a record logged before
\* it and the live file one logged after it
C9_Witness ==
    /\ waiterPc = "recv"
    /\ w.log_rotate_name \in DOMAIN fs
    /\ fs[w.log_rotate_name] # <<>>
    /\ LivePath \in DOMAIN fs
    /\ fs[LivePath] # <<>>
    /\ handle = Some(LivePath)

(***************************************************************************)
(* C10                                                                     *)
(***************************************************************************)
Blocked == fwdPc = "send" /\ Len(queue) = Capacity /\ ~Disconnected

\* C10: handing a trigger to the queue never blocks the producer: with the
\* queue full the send still completes (the notification dropped).
C10_SendNeverBlocks ==
    fwdPc = "send" => ENABLED FwdSend

\* C10, amended: the queue never holds more than 100 triggers; while it is
\* full and the rotation thread lives, the forwarding thread's send waits,
\* and signal_hook still takes a SIGUSR1 that is delivered meanwhile; a send
\* that completes while the rotation thread lives has appended its trigger.
C10_SendBlocksWhenFull ==
    /\ [](Len(queue) <= Capacity)
    /\ [](Blocked => (~ENABLED FwdSend /\ ENABLED Deliver))
    /\ [][(fwdPc = "send" /\ fwdPc' = "wait" /\ ~Disconnected) =>
            queue' = Append(queue, SIGUSR1)]_vars

\* the queue is full, the forwarding thread holds one more trigger, and a
\* further SIGUSR1 is pending
C10_Witness == Blocked /\ pending

(***************************************************************************)
(* C11                                                                     *)
(***************************************************************************)
Rotating == waiterPc \in {"rotate", "reconfig", "set_config"}

NoLevelEntry(e) ==
    \/ /\ FieldCount(e) = 1
       /\ ~Blank(e)
       /\ ~IsLevelText(e)
    \/ /\ FieldCount(e) = 2
       /\ ~Blank(Field(e, 1))
       /\ Blank(Field(e, 2))

\* the directives of the first k of the entries es
DirectivesOfFirst(es, k) == parse_env(JoinEntries(SubSeq(es, 1, k)))

\* C12: an entry that names a module and gives no level (one field that is
\* no level name, or a second field that is empty or blank) yields one
\* directive with the first field as name and level Info, placed after the
\* directives of the entries before it.
C12_NoLevelIsInfo ==
    [](parsePc = "done" =>
        LET es == EntriesOf(env)
        IN  \A k \in DOMAIN es :
                NoLevelEntry(es[k]) =>
                    LET before == DirectivesOfFirst(es, k - 1)
                        upto   == Append(before, [name |-> Field(es[k], 1),
                                                  level |-> "Info"])
                    IN  /\ IsPrefix(upto, directives)
                        /\ DirectivesOfFirst(es, k) = upto)

\* `a= ,b`: a blank second field, then a single field
C12_Witness ==
    /\ parsePc = "done"
    /\ Len(EntriesOf(env)) = 2
    /\ FieldCount(EntriesOf(env)[1]) = 2
    /\ Field(EntriesOf(env)[1], 2) = <<" ">>
    /\ FieldCount(EntriesOf(env)[2]) = 1
    /\ NoLevelEntry(EntriesOf(env)[1])
    /\ NoLevelEntry(EntriesOf(env)[2])
    /\ Len(directives) = 2
    /\ directives[1].level = "Info"
    /\ directives[2].level = "Info"

(***************************************************************************)
(* C13                                                                     *)
(***************************************************************************)
\* a single field that spells a level, in any case
BareLevelEntry(e) == FieldCount(e) = 1 /\ IsLevelText(e)

\* C13: a single-field entry that spells a level yields no directive: the
\* result is that of the text without such entries, it has at most one
\* directive per entry that is neither empty nor a bare level, and a text
\* whose entries are all empty or bare levels (the empty text and `,,,`
\* among them) yields the empty sequence.
C13_BareLevelSkipped ==
    [](parsePc = "done" =>
        LET es == EntriesOf(env)
        IN  /\ directives = parse_env(Without(env, BareLevelEntry))
            /\ Len(directives) <=
                  Cardinality({k \in DOMAIN es :
                                 es[k] # <<>> /\ ~BareLevelEntry(es[k])})
            /\ (\A k \in DOMAIN es : es[k] = <<>> \/ BareLevelEntry(es[k]))
                  => directives = <<>>)

\* `Warn` as an entry of its own, beside an empty entry and an entry that
\* yields a directive
C13_Witness ==
    /\ parsePc = "done"
    /\ \E k \in DOMAIN EntriesOf(env) : EntriesOf(env)[k] = <<"W", "a", "r", "n">>
    /\ \E k \in DOMAIN EntriesOf(env) : EntriesOf(env)[k] = <<>>
    /\ Len(directives) = 1
    /\ directives[1].name = <<"a">>

(***************************************************************************)
(* C14                                                                     *)
(***************************************************************************)
FileConfigLive ==
    /\ logger # None
    /\ logger[1].appenders # <<>>
    /\ logger[1].appenders[1].kind = "file"

\* C14: the signal is registered only with the file configuration installed,
\* the rotation thread exists only with the signal registered and the
\* forwarding thread started; a trigger forwarded while there is no
\* rotation thread yet is put in the queue, and the spawn of the rotation
\* thread finds the queue and the pending signal as they are, the thread
\* starting at recv.
C14_InstallRegisterSpawn ==
    /\ [](registered => (FileConfigLive /\ initInstalls = 1 /\ fwdPc # "none"))
    /\ [](waiterPc # "none" => registered)
    /\ [][(~registered /\ registered') =>
            (FileConfigLive /\ waiterPc = "none" /\ waiterPc' = "none")]_vars
    /\ [][(fwdPc = "send" /\ fwdPc' = "wait" /\ waiterPc = "none") =>
            queue' = Append(queue, SIGUSR1)]_vars
    /\ [][(waiterPc = "none" /\ waiterPc' # "none") =>
            /\ registered
            /\ waiterPc' = "recv"
            /\ queue' = queue
            /\ pending' = pending]_vars

\* a SIGUSR1 delivered between the registration and the spawn waits in the
\* queue
C14_Witness ==
    /\ registered
    /\ waiterPc = "none"
    /\ queue = <<SIGUSR1>>
    /\ \E t \in Callers : callPc[t] = "spawn"

(***************************************************************************)
(* C15                                                                     *)
(***************************************************************************)
\* C15: once started the rotation thread never stops: whatever the outcome
\* of a rename or of the rebuild of the file sink, it is at recv or on its
\* way back to recv, so that a queued trigger is never left with no thread
\* to take it.
C15_WaiterNeverStops ==
    waiterPc # "none" =>
        /\ waiterPc \in {"recv", "rotate", "reconfig", "set_config"}
        /\ ~Disconnected

(***************************************************************************)
(* C16                                                                     *)
(***************************************************************************)
\* one non-additive logger per directive of RUST_LOG, routed to "requests"
FirstLoggers ==
    [i \in 1..Len(EnvDirectives) |->
        [name |-> EnvDirectives[i].name, level |-> EnvDirectives[i].level,
         appenders |-> <<"requests">>, additive |-> FALSE]]

\* C16: whatever rotations have happened, the live configuration has the
\* loggers of the directives parsed from RUST_LOG at initialization and its
\* file sink is at logs/<service_name>.log; a set_config installs a
\* configuration equal to the one it replaces, and the directives and the
\* path the rotation thread captured never change.
C16_SameDirectivesSamePath ==
    /\ [](/\ FileConfigLive
          /\ logger[1].loggers = FirstLoggers
          /\ logger[1].appenders[1].path = <<"logs/", "chain", ".log">>)
    /\ [][logger' = logger]_vars
    /\ [][w'.directives = w.directives /\ w'.log_name = w.log_name]_vars
    /\ [][(waiterPc = "set_config" /\ waiterPc' = "recv") =>
            /\ w.new_config # None
            /\ w.new_config[1].loggers = FirstLoggers
            /\ w.new_config[1].appenders[1].path = <<"logs/", "chain", ".log">>
            /\ logger' = w.new_config]_vars

\* two rotations are done, in different seconds, with directives from
\* RUST_LOG
C16_Witness ==
    /\ waiterPc = "recv"
    /\ Cardinality(DOMAIN fs) = 3
    /\ handle = Some(LivePath)
    /\ logger[1].loggers # <<>>

(***************************************************************************)
(* C17                                                                     *)
(***************************************************************************)
\* every appender a logger or the root is routed to is in the configuration
CompleteConfig(c) ==
    /\ c.root.level \in LevelFilter
    /\ \A a \in Range(c.root.appenders) :
          \E i \in DOMAIN c.appenders : c.appenders[i].name = a
    /\ \A i \in DOMAIN c.loggers :
          /\ c.loggers[i].level \in LevelFilter
          /\ \A a \in Range(c.loggers[i].appenders) :
                \E j \in DOMAIN c.appenders : c.appenders[j].name = a

SwapStep == waiterPc = "set_config" /\ waiterPc' = "recv"

RenamedStep ==
    /\ waiterPc = "rotate"
    /\ waiterPc' = "reconfig"
    /\ w.log_name \in DOMAIN fs
    /\ w.log_name \notin DOMAIN fs'

\* C17: once a configuration is installed, the live configuration is
\* replaced only by the rotation thread's set_config, as a whole and by the
\* configuration it rebuilt, and a set_config is reached only through a
\* rename that succeeded; no step of a call of init_config or silent changes
\* the live configuration or the open file; with the console or the silent
\* configuration nothing is registered, no thread is started and the
\* configuration stays; and the live configuration is always a complete
\* one.
C17_OnlyWaiterSwaps ==
    /\ [](logger # None => CompleteConfig(logger[1]))
    /\ [][logger # None =>
            /\ logger' # None
            /\ \/ UNCHANGED <<logger, handle>>
               \/ SwapStep /\ logger' = w.new_config /\ w.new_config # None
               \/ RenamedStep /\ logger' = logger]_vars
    /\ [][(waiterPc' = "set_config" /\ waiterPc # "set_config") =>
            waiterPc = "reconfig"]_vars
    /\ [][(waiterPc' = "reconfig" /\ waiterPc # "reconfig") => RenamedStep]_vars
    /\ [][(logger # None /\ callPc' # callPc) =>
            UNCHANGED <<logger, handle, fs>>]_vars
    /\ []((logger # None /\ ~FileConfigLive) =>
            /\ ~registered
            /\ fwdPc = "none"
            /\ waiterPc = "none"
            /\ handle = None
            /\ queue = <<>>
            /\ fs = NoFiles)

\* a rotation has swapped the configuration, and a call of silent has
\* returned since the file configuration was installed
C17_Witness ==
    /\ waiterPc = "recv"
    /\ w.log_rotate_name \in DOMAIN fs
    /\ handle = Some(LivePath)
    /\ FileConfigLive
    /\ \E u \in Callers : entry[u].fn = "silent" /\ callPc[u] = "returned"

(***************************************************************************)
(* C18                                                                     *)
(***************************************************************************)
\* one appender, the root at Info routed to it, and one non-additive logger
\* per directive, in order, routed to it
ConfigShape(c, ds) ==
    /\ Len(c.appenders) = 1
    /\ c.root = [level |-> "Info", appenders |-> <<c.appenders[1].name>>]
    /\ Len(c.loggers) = Len(ds)
    /\ \A i \in 1..Len(ds) :
          c.loggers[i] = [name |-> ds[i].name, level |-> ds[i].level,
                          appenders |-> <<c.appenders[1].name>>,
                          additive |-> FALSE]

\* the sink of the thread's destination was constructed
SinkBuilt(t) ==
    \/ entry[t].favour = "Stdout"
    \/ <<"logs/", entry[t].service_name, ".log">> \in DOMAIN fs

\* C18: for every destination and every directive sequence, once the sink
\* is constructed the build yields a configuration with one sink, the root
\* at Info routed to it and one non-additive logger per directive (same
\* name, same level, routed to that sink), none when there is no directive.
C18_ConfigShape ==
    \A t \in Callers :
        (entry[t].fn = "init_config" /\ callPc[t] \notin {"idle", "call_once", "parse", "build"}
           /\ SinkBuilt(t)) =>
            /\ loc[t].config # None
            /\ ConfigShape(loc[t].config[1], loc[t].directives)
            /\ (loc[t].directives = <<>> => loc[t].config[1].loggers = <<>>)

(***************************************************************************)
(* C19                                                                     *)
(***************************************************************************)
\* the closure of a file-mode init_config ends at the construction of the
\* sink or at the registration of the signal
InitAborts(t) ==
    /\ entry[t].favour = "File"
    /\ callPc[t] \in {"build", "notify"}
    /\ callPc'[t] = "panicked"

\* C19: when the construction of the file sink or the registration of the
\* signal fails, the call panics and the Once is poisoned, not complete;
\* from then on the Once stays poisoned, no call of init_config or silent
\* returns, no closure runs, and no forwarding or rotation thread exists.
C19_InitAborts ==
    /\ [][\A t \in Callers :
            InitAborts(t) =>
               /\ INIT_LOG'["INIT_LOG"] = "POISONED"
               /\ waiterPc' = "none"
               /\ ~registered'
               /\ initInstalls' = initInstalls]_vars
    /\ [][INIT_LOG["INIT_LOG"] = "POISONED" => INIT_LOG' = INIT_LOG]_vars
    /\ [](INIT_LOG["INIT_LOG"] = "POISONED" =>
            /\ \A t \in Callers : callPc[t] \in {"idle", "call_once", "panicked"}
            /\ waiterPc = "none"
            /\ fwdPc = "none"
            /\ ~registered)
    /\ []((\E t \in Callers : callPc[t] = "panicked") =>
            INIT_LOG["INIT_LOG"] = "POISONED")

\* the registration failed after the file configuration was installed, and
\* the call of the other thread has panicked on the poisoned Once
C19_Witness ==
    /\ INIT_LOG["INIT_LOG"] = "POISONED"
    /\ FileConfigLive
    /\ <<"logs/", "chain", ".log">> \in DOMAIN fs
    /\ \A t \in Callers : callPc[t] = "panicked"

(***************************************************************************)
(* C20                                                                     *)
(***************************************************************************)
\* the records held by the files
AllRecords(f) == UNION { Range(f[p]) : p \in DOMAIN f }

\* C20: the name a rotation renames the live file to names no file yet, and
\* no step removes a record from the files: every record written stays in
\* the live file or in a rotated one.
C20_NoRotatedContentLost ==
    [][/\ RenamedStep => w'.log_rotate_name \notin DOMAIN fs
       /\ AllRecords(fs) \subseteq AllRecords(fs')]_vars

====
